---- MODULE Spec2Model ----
(***************************************************************************)
(* Aegis-Oxbow relayer: the in-memory intent pool, the two batch triggers  *)
(* (pool size, gas-predictor confidence), the drain / submit / restore     *)
(* protocol of AegisRelayer.executeBatch and the readiness logic of        *)
(* AIGasPredictor.                                                         *)
(*                                                                         *)
(* The relayer runs on a single-threaded event loop.  A step of the model  *)
(* is one run-to-completion callback: an event handler up to its first     *)
(* await, or the continuation of an await up to the next one.              *)
(***************************************************************************)
EXTENDS Integers, Sequences, FiniteSets, TLC

\* ------------------------------------------------------------------ bounds
MaxIntents == 3            \* intents that arrive in one behaviour
MaxFailures == 1           \* executions that fail in one behaviour
batchSizeThreshold == 2    \* config.batchSizeThreshold (BATCH_SIZE_THRESHOLD)
MaxVaultBalance == 3       \* largest value the vaultBalance() view returns

\* ------------------------------------------------------- program constants
windowSize == 10           \* AIGasPredictor.windowSize
CUTOFF == 70               \* score > 0.7, scores in hundredths
GWEI == 1000000000         \* wei per gwei (formatUnits(.., "gwei"))
ETHER == 1000000           \* amount units per ether: amounts are counted in
                           \* szabo (10^12 wei); formatEther divides wei by 10^18

NULL == "null"
Now == "now"               \* Date.now(): wall-clock time is not modelled
TX == "tx"                 \* tx.hash: an opaque transaction identifier
NoSnap == [ status |-> "none" ]    \* no getStatus() result is being kept
NotAString == "<number>"   \* a JSON value without a slice method
Missing == ""              \* an absent (falsy) JSON field
NoIntent == [ id |-> 0, self |-> FALSE, drainsBefore |-> 0 ]
                           \* no demo intent awaits a getStatus()

\* ------------------------------------------------------------------ inputs
\* receiver / amount of the intents the feeds deliver (amounts in szabo)
IntentPayloads ==
  { [receiver |-> "r1", amount |-> 1], [receiver |-> "r2", amount |-> 2] }

\* getBlock results: 0 stands for a block without a usable baseFeePerGas
\* (null block, missing field, 0n, or a lookup that throws)
BaseFees == {0, GWEI}

\* outputs of the network's forward pass, in hundredths; the weights start
\* from Math.random(), so every output in the sigmoid's range can occur
NetOutputs == {70, 71}

VaultBalances == 0..MaxVaultBalance

\* Addresses.  The externally owned accounts accept any transfer; Rejector is
\* a contract without a payable receive function; Reenterer is a contract
\* whose receive function calls executeBatch on the vault, catches the
\* revert and accepts the transfer.
ZERO == "address(0)"
VAULT == "address(this)"
Rejector == "rejector"
Reenterer == "reenterer"
EOAs == { "owner", "relayer", "alice", "bob", "carol" }
Accounts == EOAs \cup { Rejector, Reenterer, VAULT }
Depositors == { "alice", "carol" }

\* the number of deposits that are followed, the largest value of one
\* deposit, and what every depositor owns at deployment (enough for all of
\* them)
MaxDeposits == 2
Values == 0..2
Purse == 2 * MaxDeposits

NoCall == [ fn |-> "none", ok |-> TRUE, error |-> NULL, nested |-> << >> ]

VARIABLES
  phase,        \* "constructed" | "started" | "stopped"
  relayer,      \* fields of AegisRelayer (intentPool, isExecuting, state.*)
  gasAI,        \* fields of AIGasPredictor
  executions,   \* suspended activations of executeBatch, in start order
  timers,       \* pending setTimeout callbacks, in firing order
  arrived,      \* history: every intent ever enqueued, in arrival order
  settled,      \* history: batches whose execution completed successfully
  nFailures,    \* history: number of failed executions
  lastRestored, \* history: batch put back by the most recent failure
  snap,         \* the object a caller of getStatus() has kept, or NoSnap
  injected,     \* history: the demo intent injected since the last getStatus()
  lost,         \* history: batches drained by an executeBatch call that threw
                \* before its try block
  pending,      \* block handlers suspended at `await getBlock(blockNumber)`
  absorbed,     \* history: every fee sample handed to addBlockDataAndTrain
  trainings,    \* history: number of calls of trainModel()
  vault,        \* storage of the AegisVault contract
  wallets,      \* native balance of every account, the vault's included
  receipts,     \* history: events emitted and the outcome of the last call
  lab           \* two AIGasPredictor objects with their networks, or NoLab

vars == << phase, relayer, gasAI, executions, timers, arrived, settled,
           nFailures, lastRestored, snap, injected, lost, pending, absorbed,
           trainings, vault, wallets, receipts, lab >>

\* what the callers of the status API hold
apiVars == << snap, injected >>

\* what the relayer's own handlers never write
sideVars == << pending, absorbed, trainings, vault, wallets, receipts, lab >>

\* ----------------------------------------------------------------- helpers
\* the last n elements of a sequence
LastN(q, n) == SubSeq(q, Len(q) - n + 1, Len(q))

Min(a, b) == IF a < b THEN a ELSE b
Max(a, b) == IF a > b THEN a ELSE b

\* a sum kept in an accumulator two bits wide
RECURSIVE SumAmounts_Wraps(_)
SumAmounts_Wraps(batch) ==
  IF batch = << >>
    THEN 0
    ELSE (Head(batch).amount + SumAmounts_Wraps(Tail(batch))) % 4

\* amounts.reduce((acc, v) => acc + v, 0n): a bigint sum, which cannot wrap
RECURSIVE SumAmounts(_)
SumAmounts(batch) ==
  IF batch = << >> THEN 0 ELSE Head(batch).amount + SumAmounts(Tail(batch))

RECURSIVE Flatten(_)
Flatten(ss) == IF ss = << >> THEN << >> ELSE Head(ss) \o Flatten(Tail(ss))

Range(s) == { s[i] : i \in 1..Len(s) }

RemoveAt(s, i) == SubSeq(s, 1, i - 1) \o SubSeq(s, i + 1, Len(s))

Map(s, F(_)) == [ i \in 1..Len(s) |-> F(s[i]) ]

IsPrefix(p, s) == Len(p) <= Len(s) /\ SubSeq(s, 1, Len(p)) = p

\* ethers.formatEther: the decimal ether string, as whole part and fraction
formatEther(v) == [ whole |-> v \div ETHER, frac |-> v % ETHER ]

\* parseFloat(formatUnits(baseFee, "gwei")).toFixed(2): hundredths of a gwei,
\* rounded half up
toFixedGwei(wei) == (wei + (GWEI \div 200)) \div (GWEI \div 100)

\* ------------------------------------------------------------ AegisRelayer
\* a refresh that copies the pool but never recomputes the status
syncState_KeepsStatus(r, ai) == [ r EXCEPT !.pooledIntents = r.intentPool ]

\* syncState(): refresh the reported copy of the pool and recompute status
syncState(r, ai) ==
  [ r EXCEPT
      !.pooledIntents = r.intentPool,
      !.status = IF r.status # "EXECUTING" /\ r.status # "ERROR"
                   THEN (IF Len(r.intentPool) > 0 THEN "POOLING" ELSE "IDLE")
                   ELSE r.status ]

\* executeBatch(), line 215: the early return
canExecute(r) == ~ r.isExecuting /\ Len(r.intentPool) # 0

\* a drain that copies the pool into the batch but leaves the pool as it is
drainPool_KeepsPool(r, ai) ==
  syncState([ r EXCEPT !.isExecuting = TRUE, !.status = "EXECUTING" ], ai)

\* a drain that sets the flag and empties the pool without writing the
\* status
drainPool_KeepsStatus(r, ai) ==
  syncState([ r EXCEPT !.isExecuting = TRUE, !.intentPool = << >> ], ai)

\* executeBatch(), lines 217-222: set the flag, drain the pool
drainPool(r, ai) ==
  syncState([ r EXCEPT !.isExecuting = TRUE,
                       !.status = "EXECUTING",
                       !.intentPool = << >> ], ai)

\* String.prototype.slice exists on the value (lines 198 and 231 call it)
hasSlice(v) == v # NotAString

\* executeBatch(), lines 224-231: the synchronous part after the drain runs
\* through; line 231 calls r.slice on every receiver, outside the try block
logsBatch(batch) == \A k \in 1..Len(batch) : hasSlice(batch[k].receiver)

\* the activation suspended at `await vaultBalance()`, with its locals of
\* lines 221-226; call is the pair of arguments of the settlement call once
\* line 246 has submitted it
\* (trigger and drainedAt are history: the call site that started it and the
\* number of intents that had arrived when it drained)
newExecution(r, callSite, nArrived) ==
  [ batch |-> r.intentPool,
    receivers |-> Map(r.intentPool, LAMBDA i : i.receiver),
    amounts |-> Map(r.intentPool, LAMBDA i : i.amount),
    totalValue |-> SumAmounts(r.intentPool),
    call |-> << >>,
    pc |-> "vaultBalance",
    txHash |-> NULL,
    trigger |-> callSite,
    drainedAt |-> nArrived ]

\* the size trigger with > in place of >=
sizeTrigger_Strict(r) == Len(r.intentPool) > batchSizeThreshold

\* the size trigger firing one intent early
sizeTrigger_OneEarly(r) == Len(r.intentPool) >= batchSizeThreshold - 1

\* handleIntent(), line 203: the size trigger
sizeTrigger(r) == Len(r.intentPool) >= batchSizeThreshold

\* an enqueue that puts the intent at the head of the pool
pushIntent_AtFront(r, intent, ai) ==
  syncState([ r EXCEPT !.intentPool = << intent >> \o @ ], ai)

\* handleIntent(), lines 193-194: push, syncState
pushIntent(r, intent, ai) ==
  syncState([ r EXCEPT !.intentPool = Append(@, intent) ], ai)

\* a funds check that lets a batch through when one unit is missing
insufficientFunds_OffByOne(vaultBal, totalValue) == vaultBal < totalValue - 1

\* executeBatch(), line 236: the funds check
insufficientFunds(vaultBal, totalValue) == vaultBal < totalValue

\* success bookkeeping that leaves the status as it is
recordSuccess_KeepsStatus(r, e) ==
  [ r EXCEPT
      !.lastBatch = [ txHash |-> e.txHash,
                      batchSize |-> Len(e.batch),
                      totalValue |-> formatEther(SumAmounts(e.batch)),
                      executedAt |-> Now ],
      !.totalBatchesExecuted = @ + 1,
      !.totalIntentsProcessed = @ + Len(e.batch) ]

\* success bookkeeping that also counts the intents waiting in the pool
recordSuccess_CountsPool(r, e) ==
  [ r EXCEPT
      !.lastBatch = [ txHash |-> e.txHash,
                      batchSize |-> Len(e.batch),
                      totalValue |-> formatEther(SumAmounts(e.batch)),
                      executedAt |-> Now ],
      !.totalBatchesExecuted = @ + 1,
      !.totalIntentsProcessed = @ + Len(e.batch) + Len(r.intentPool),
      !.status = IF Len(r.intentPool) > 0 THEN "POOLING" ELSE "IDLE" ]

\* executeBatch(), lines 254-262: the bookkeeping of a confirmed batch
recordSuccess(r, e) ==
  [ r EXCEPT
      !.lastBatch = [ txHash |-> e.txHash,
                      batchSize |-> Len(e.batch),
                      totalValue |-> formatEther(SumAmounts(e.batch)),
                      executedAt |-> Now ],
      !.totalBatchesExecuted = @ + 1,
      !.totalIntentsProcessed = @ + Len(e.batch),
      !.status = IF Len(r.intentPool) > 0 THEN "POOLING" ELSE "IDLE" ]

\* a catch block that only sets the status and forgets the batch
restoreBatch_DropsBatch(r, e) == [ r EXCEPT !.status = "ERROR" ]

\* a catch block that pushes the batch behind the pool instead of unshifting
restoreBatch_AtTail(r, e) ==
  [ r EXCEPT !.intentPool = @ \o e.batch, !.status = "ERROR" ]

\* a catch block that counts the attempt as an executed batch
restoreBatch_CountsAttempt(r, e) ==
  [ r EXCEPT !.intentPool = e.batch \o @,
             !.status = "ERROR",
             !.totalBatchesExecuted = @ + 1 ]

\* executeBatch(), lines 263-267: the catch block
restoreBatch(r, e) ==
  [ r EXCEPT !.intentPool = e.batch \o @, !.status = "ERROR" ]

\* a finally block that clears the flag without refreshing the reported state
releaseFlag_NoSync(r, ai) == [ r EXCEPT !.isExecuting = FALSE ]

\* executeBatch(), lines 268-270: the finally block up to the timer
releaseFlag(r, ai) == syncState([ r EXCEPT !.isExecuting = FALSE ], ai)

\* executeBatch(), line 272: a timer is scheduled when intents are waiting
schedulesTimer(r) == Len(r.intentPool) > 0

\* the setTimeout callback, lines 273-275
timerCallback(r) == [ r EXCEPT !.isExecuting = FALSE ]

\* ----------------------------------------------------- SimpleNeuralNetwork
\* The network computes in doubles; here a number x is the integer nearest
\* to x * SCALE, products and quotients are rounded to the nearest unit, and
\* Math.exp is read from a table of the sigmoid at steps of 1/8 with linear
\* interpolation in between.
SCALE == 10000
learningRate == 1000
trainIterations == 200
hiddenSize == 5

NoLab == [ built |-> FALSE ]

\* the double NaN (0 / 0): a value outside the range of every number the
\* model computes; arithmetic on NaN yields NaN
NaN == -(2 ^ 30)

fmul(a, b) == (a * b + SCALE \div 2) \div SCALE
fquot(a, b) == (a * SCALE + b \div 2) \div b

\* eager tuples (arrays of the code)
Array5(F(_)) == << F(1), F(2), F(3), F(4), F(5) >>
Array10(F(_)) ==
  << F(1), F(2), F(3), F(4), F(5), F(6), F(7), F(8), F(9), F(10) >>

RECURSIVE SumTo(_, _)
SumTo(F(_), n) == IF n = 0 THEN 0 ELSE F(n) + SumTo(F, n - 1)

\* statement order of the code: `first` is computed before `rest` is
After(first, rest) == IF first = first THEN rest ELSE rest

\* SCALE / (1 + exp(-k/8)) for k = 0..65
SigmoidTable ==
  << 5000, 5312, 5622, 5927, 6225, 6514, 6792, 7058, 7311, 7549, 7773,
     7982, 8176, 8355, 8520, 8670, 8808, 8933, 9047, 9149, 9241, 9325,
     9399, 9466, 9526, 9579, 9627, 9669, 9707, 9740, 9770, 9797, 9820,
     9841, 9859, 9876, 9890, 9903, 9914, 9924, 9933, 9941, 9948, 9954,
     9959, 9964, 9968, 9972, 9975, 9978, 9981, 9983, 9985, 9987, 9988,
     9990, 9991, 9992, 9993, 9994, 9994, 9995, 9996, 9996, 9997, 9997 >>

\* sigmoid(x), lines 29-31
sigmoid(x) ==
  LET a == IF x < 0 THEN -x ELSE x
      k == (a * 8) \div SCALE
      r == a * 8 - k * SCALE
      y == IF k >= 64
             THEN SigmoidTable[65]
             ELSE SigmoidTable[k + 1]
                    + ((SigmoidTable[k + 2] - SigmoidTable[k + 1]) * r
                         + SCALE \div 2) \div SCALE
  IN  IF x < 0 THEN SCALE - y ELSE y

\* sigmoidDerivative(x), lines 33-35
sigmoidDerivative(x) == fmul(x, SCALE - x)

\* new SimpleNeuralNetwork(10, 5, 1), lines 16-27, when every Math.random()
\* call of the construction returns the same number: all weights and
\* biases are w
newNetwork(w) ==
  [ weightsInputHidden |-> Array10(LAMBDA i : Array5(LAMBDA j : w)),
    weightsHiddenOutput |-> Array5(LAMBDA j : << w >>),
    biasHidden |-> Array5(LAMBDA j : w),
    biasOutput |-> << w >> ]

\* forward pass, input -> hidden (lines 40-47, 100-107)
hiddenOutputsOf(net, inputs) ==
  Array5(LAMBDA j :
    sigmoid(net.biasHidden[j]
            + SumTo(LAMBDA i : fmul(inputs[i], net.weightsInputHidden[i][j]),
                    windowSize)))

\* forward pass, hidden -> output (lines 50-57, 109-116)
finalOutputsOf(net, hiddenOutputs) ==
  << sigmoid(net.biasOutput[1]
             + SumTo(LAMBDA j : fmul(hiddenOutputs[j],
                                     net.weightsHiddenOutput[j][1]),
                     hiddenSize)) >>

\* train(inputs, expectedOutput), lines 37-97: the network after one
\* forward and backward pass
train(net, inputs, expectedOutput) ==
  IF expectedOutput[1] = NaN \/ net.biasOutput[1] = NaN
    THEN \* the output error is NaN and every update adds a multiple of it
         newNetwork(NaN)
    ELSE
  LET hiddenOutputs == hiddenOutputsOf(net, inputs)
      finalOutputs == finalOutputsOf(net, hiddenOutputs)
      outputErrors ==
        << fmul(expectedOutput[1] - finalOutputs[1],
                sigmoidDerivative(finalOutputs[1])) >>
      hiddenErrors ==
        Array5(LAMBDA j :
          fmul(fmul(outputErrors[1], net.weightsHiddenOutput[j][1]),
               sigmoidDerivative(hiddenOutputs[j])))
  IN  After(hiddenOutputs, After(finalOutputs,
      After(outputErrors, After(hiddenErrors,
      [ weightsHiddenOutput |->
          Array5(LAMBDA j :
            << net.weightsHiddenOutput[j][1]
                 + fmul(fmul(learningRate, outputErrors[1]),
                        hiddenOutputs[j]) >>),
        biasOutput |->
          << net.biasOutput[1] + fmul(learningRate, outputErrors[1]) >>,
        weightsInputHidden |->
          Array10(LAMBDA i :
            Array5(LAMBDA j :
              net.weightsInputHidden[i][j]
                + fmul(fmul(learningRate, hiddenErrors[j]), inputs[i]))),
        biasHidden |->
          Array5(LAMBDA j :
            net.biasHidden[j] + fmul(learningRate, hiddenErrors[j])) ]))))

\* run(inputs), lines 99-118
run(net, inputs) ==
  IF net.biasOutput[1] = NaN
    THEN << NaN >>
    ELSE finalOutputsOf(net, hiddenOutputsOf(net, inputs))

\* the loop of lines 166-168: n calls of train in a row, written as the
\* second half of the calls on the network the first half has left (the
\* comparison makes the evaluator finish the first half before it starts
\* the second)
RECURSIVE trainTimes(_, _, _, _)
trainTimes(net, inputs, expectedOutput, n) ==
  IF n = 0
    THEN net
    ELSE IF n = 1
      THEN train(net, inputs, expectedOutput)
      ELSE LET half == trainTimes(net, inputs, expectedOutput, n \div 2)
           IN  IF half = half
                 THEN trainTimes(half, inputs, expectedOutput,
                                 n - n \div 2)
                 ELSE net

\* ---------------------------------------------------------- AIGasPredictor
\* an eviction that drops the sample just pushed
evictOldest_Newest(pushed) ==
  IF Len(pushed) > windowSize THEN SubSeq(pushed, 1, windowSize) ELSE pushed

\* addBlockDataAndTrain(), lines 137-139: shift() beyond the window size
evictOldest(pushed) ==
  IF Len(pushed) > windowSize THEN Tail(pushed) ELSE pushed

\* a predictor that trains one sample early
windowFull_OneEarly(window) == Len(window) >= windowSize - 1

\* addBlockDataAndTrain(), line 141: the window is full, trainModel() runs
windowFull(window) == Len(window) = windowSize

\* addBlockDataAndTrain(), lines 134-139: the window after the push.  The
\* window is kept in wei: the double the code stores is the same number
\* divided by 10^9
pushSample(ai, baseFeeWei) ==
  evictOldest(Append(ai.historicalFees, baseFeeWei))

\* addBlockDataAndTrain(): push, evict the oldest beyond the window, train
\* when the window is full (trainModel sets isTrained)
addBlockDataAndTrain(ai, baseFeeWei) ==
  LET window == pushSample(ai, baseFeeWei)
  IN  [ historicalFees |-> window,
        isTrained |-> ai.isTrained \/ windowFull(window) ]

\* shouldExecuteBatch(): <<execute, score>>; `out` is net.run's output
shouldExecuteBatch(ai, out) ==
  IF ~ ai.isTrained \/ Len(ai.historicalFees) < windowSize
    THEN << FALSE, 0 >>
    ELSE << out > CUTOFF, out >>

\* parseFloat(formatUnits(baseFeeWei, "gwei")), line 134, in units of
\* 1/SCALE gwei
gweiOf(baseFeeWei) ==
  (baseFeeWei + (GWEI \div SCALE) \div 2) \div (GWEI \div SCALE)

RECURSIVE MaxTo(_, _)
MaxTo(F(_), n) == IF n = 1 THEN F(1) ELSE Max(F(n), MaxTo(F, n - 1))

RECURSIVE MinTo(_, _)
MinTo(F(_), n) == IF n = 1 THEN F(1) ELSE Min(F(n), MinTo(F, n - 1))

\* trainModel(), lines 147-151 (and shouldExecuteBatch, lines 178-182): the
\* window scaled to [0, 1]
normalizedHistory(fees) ==
  LET maxFee == MaxTo(LAMBDA i : gweiOf(fees[i]), windowSize)
      minFee == MinTo(LAMBDA i : gweiOf(fees[i]), windowSize)
      range == IF maxFee - minFee = 0 THEN SCALE ELSE maxFee - minFee
  IN  Array10(LAMBDA i : fquot(gweiOf(fees[i]) - minFee, range))

\* trainModel(), lines 153-163: the training target.  A window of
\* non-negative samples whose mean is 0 holds zeros only: line 157 is false,
\* line 161 divides 0 by 0 and Math.max(0.01, NaN) is NaN
targetScore(fees) ==
  LET sum == SumTo(LAMBDA i : gweiOf(fees[i]), windowSize)
      avg == (sum + windowSize \div 2) \div windowSize
      currentFee == gweiOf(fees[windowSize])
  IN  IF avg = 0
        THEN NaN
        ELSE IF currentFee < avg
          THEN Min(9900, 5000 + 2 * fquot(avg - currentFee, avg))
          ELSE Max(100, 5000 - 2 * fquot(currentFee - avg, avg))

\* trainModel(), lines 146-171, on a predictor that carries its network
trainModel(p) ==
  LET normalized == normalizedHistory(p.historicalFees)
      target == << targetScore(p.historicalFees) >>
  IN  After(p, After(normalized, After(target,
      [ p EXCEPT !.net = trainTimes(@, normalized, target, trainIterations),
                 !.isTrained = TRUE ])))

\* new AIGasPredictor(), lines 122-131
newPredictor(w) ==
  [ net |-> newNetwork(w), historicalFees |-> << >>, isTrained |-> FALSE ]

\* addBlockDataAndTrain(), lines 133-144, on a predictor that carries its
\* network
absorbSample(p, baseFeeWei) ==
  LET window == pushSample(p, baseFeeWei)
      pushed == [ p EXCEPT !.historicalFees = window ]
  IN  IF windowFull(window) THEN trainModel(pushed) ELSE pushed

\* shouldExecuteBatch(), lines 173-186: the score, in units of 1/SCALE
confidenceScore(p) ==
  IF ~ p.isTrained \/ Len(p.historicalFees) < windowSize
    THEN 0
    ELSE LET prediction == run(p.net, normalizedHistory(p.historicalFees))
         IN  \* `prediction[0] || 0`
             IF prediction[1] = NaN THEN 0 ELSE prediction[1]

\* block listener, lines 155-159: the fee trigger
feeTrigger(r, ai, executeAI) ==
  ai.isTrained /\ executeAI /\ Len(r.intentPool) > 0

\* syncState(), lines 286-291: the predictor part of the reported state
\* (state.aiState is written by syncState and read only through getStatus,
\* which calls syncState first, so it is computed where it is read)
aiStateOf(r, ai) ==
  [ isReady |-> ai.isTrained,
    currentGasGwei |-> r.currentGasGwei,
    confidenceScore |-> r.currentAiScore,
    threshold |-> CUTOFF ]

\* { ...this.state }: the fields of the reported state (uptime and startedAt
\* are wall-clock values and are not modelled)
stateCopy(r, ai) ==
  [ status |-> r.status,
    pooledIntents |-> r.pooledIntents,
    lastBatch |-> r.lastBatch,
    aiState |-> aiStateOf(r, ai),
    totalBatchesExecuted |-> r.totalBatchesExecuted,
    totalIntentsProcessed |-> r.totalIntentsProcessed ]

\* getStatus(), lines 298-301: the value returned to the caller
getStatus(r, ai) == stateCopy(syncState(r, ai), ai)

Init ==
  /\ phase = "constructed"
  /\ relayer = [ intentPool |-> << >>,
                 isExecuting |-> FALSE,
                 currentGasGwei |-> 0,
                 currentAiScore |-> 0,
                 status |-> "IDLE",
                 pooledIntents |-> << >>,
                 lastBatch |-> [ txHash |-> NULL, batchSize |-> 0,
                                 totalValue |-> formatEther(0),
                                 executedAt |-> NULL ],
                 totalBatchesExecuted |-> 0,
                 totalIntentsProcessed |-> 0 ]
  /\ gasAI = [ historicalFees |-> << >>, isTrained |-> FALSE ]
  /\ executions = << >>
  /\ timers = << >>
  /\ arrived = << >>
  /\ settled = << >>
  /\ lastRestored = << >>
  /\ nFailures = 0
  /\ snap = NoSnap
  /\ injected = NoIntent
  /\ lost = << >>
  /\ pending = 0
  /\ absorbed = << >>
  /\ trainings = 0
  /\ vault = [ relayer |-> "relayer",
                owner |-> "owner",
                deposits |-> [ a \in Accounts |-> 0 ],
                intentCounter |-> 0,
                entered |-> FALSE ]
  /\ wallets = [ a \in Accounts |-> IF a \in Depositors THEN Purse ELSE 0 ]
  /\ receipts = [ intents |-> << >>, last |-> NoCall ]
  /\ lab = NoLab

\* start(): register both listeners, write status POOLING
Start ==
  /\ phase = "constructed"
  /\ phase' = "started"
  /\ relayer' = [ relayer EXCEPT !.status = "POOLING" ]
  /\ UNCHANGED << gasAI, executions, timers, arrived, settled, lastRestored,
                  nFailures, apiVars, sideVars, lost >>

\* handleIntent(intent), reached from the IntentRegistered listener and from
\* POST /api/simulate-intent
HandleIntent(payload) ==
  /\ phase = "started"
  /\ Len(arrived) < MaxIntents
  /\ LET intent == [ id |-> Len(arrived) + 1,
                     receiver |-> payload.receiver,
                     amount |-> payload.amount ]
         r1 == pushIntent(relayer, intent, gasAI)
         go == sizeTrigger(r1) /\ canExecute(r1)
     IN  /\ arrived' = Append(arrived, intent)
         /\ relayer' = IF go THEN drainPool(r1, gasAI) ELSE r1
         /\ executions' = IF go /\ logsBatch(r1.intentPool)
                            THEN Append(executions,
                                        newExecution(r1, "size",
                                                     Len(arrived) + 1))
                            ELSE executions
         /\ lost' = IF go /\ ~ logsBatch(r1.intentPool)
                      THEN Append(lost, r1.intentPool)
                      ELSE lost
  /\ UNCHANGED << phase, gasAI, timers, settled, lastRestored, nFailures,
                  apiVars, sideVars >>

\* `if (blockObj?.baseFeePerGas)`: the lookup returned a block that carries a
\* base fee (a lookup that throws is caught at line 167 and is 0 here)
usableFee_Always(baseFee) == TRUE
usableFee(baseFee) == baseFee # 0

\* the block handler from the return of `await getBlock(blockNumber)` on
AbsorbBlock(baseFee, out) ==
  /\ IF ~ usableFee(baseFee)
       THEN UNCHANGED << relayer, gasAI, executions, lost >>
       ELSE LET ai == addBlockDataAndTrain(gasAI, baseFee)
                res == shouldExecuteBatch(ai, out)
                r1 == [ relayer EXCEPT
                          !.currentGasGwei = toFixedGwei(baseFee),
                          !.currentAiScore = res[2] ]
                go == feeTrigger(r1, ai, res[1]) /\ canExecute(r1)
            IN  /\ gasAI' = ai
                /\ relayer' = IF go THEN drainPool(r1, ai) ELSE r1
                /\ executions' = IF go /\ logsBatch(r1.intentPool)
                                   THEN Append(executions,
                                               newExecution(r1, "fee",
                                                            Len(arrived)))
                                   ELSE executions
                /\ lost' = IF go /\ ~ logsBatch(r1.intentPool)
                             THEN Append(lost, r1.intentPool)
                             ELSE lost
  /\ UNCHANGED << phase, timers, arrived, settled, lastRestored, nFailures,
                  apiVars >>

\* provider.on("block"): a block is announced while the listener is
\* registered and its lookup returns
OnBlock(baseFee, out) ==
  /\ phase = "started"
  /\ AbsorbBlock(baseFee, out)
  /\ UNCHANGED sideVars

\* executeBatch(), the catch and finally blocks for activation i, while
\* fewer than cap executions have failed
FailUnder(i, cap) ==
  LET e == executions[i]
      r1 == releaseFlag(restoreBatch(relayer, e), gasAI)
  IN  /\ nFailures < cap
      /\ nFailures' = nFailures + 1
      /\ relayer' = r1
      /\ executions' = RemoveAt(executions, i)
      /\ timers' = IF schedulesTimer(r1) THEN Append(timers, TRUE) ELSE timers
      /\ lastRestored' = e.batch
      /\ UNCHANGED << phase, gasAI, arrived, settled, apiVars, sideVars, lost >>

Fail(i) == FailUnder(i, MaxFailures)

\* `await vaultBalance()` returns bal (lines 235-240)
VaultBalanceReturns(i, bal) ==
  /\ i \in 1..Len(executions)
  /\ executions[i].pc = "vaultBalance"
  /\ IF insufficientFunds(bal, executions[i].totalValue)
       THEN Fail(i)
       ELSE /\ executions' = [ executions EXCEPT ![i].pc = "estimateGas" ]
            /\ UNCHANGED << phase, relayer, gasAI, timers, arrived, settled,
                            lastRestored, nFailures, apiVars, sideVars, lost >>

\* `await executeBatch.estimateGas(receivers, amounts)` returns (line 243)
EstimateGasReturns(i) ==
  /\ i \in 1..Len(executions)
  /\ executions[i].pc = "estimateGas"
  /\ executions' = [ executions EXCEPT ![i].pc = "executeBatch" ]
  /\ UNCHANGED << phase, relayer, gasAI, timers, arrived, settled,
                  lastRestored, nFailures, apiVars, sideVars, lost >>

\* `await vault.executeBatch(receivers, amounts, {gasLimit})` returns the
\* transaction (line 246)
TxSubmitted(i) ==
  /\ i \in 1..Len(executions)
  /\ executions[i].pc = "executeBatch"
  /\ executions' = [ executions EXCEPT
                      ![i].pc = "wait",
                      ![i].txHash = TX,
                      ![i].call = << executions[i].receivers,
                                     executions[i].amounts >> ]
  /\ UNCHANGED << phase, relayer, gasAI, timers, arrived, settled,
                  lastRestored, nFailures, apiVars, sideVars, lost >>

\* `await tx.wait(1)` returns the receipt (lines 249-262, 268-277)
TxConfirmed(i) ==
  /\ i \in 1..Len(executions)
  /\ executions[i].pc = "wait"
  /\ LET e == executions[i]
         r1 == releaseFlag(recordSuccess(relayer, e), gasAI)
     IN  /\ relayer' = r1
         /\ executions' = RemoveAt(executions, i)
         /\ settled' = Append(settled, e.batch)
         /\ timers' = IF schedulesTimer(r1) THEN Append(timers, FALSE)
                                            ELSE timers
  /\ UNCHANGED << phase, gasAI, arrived, lastRestored, nFailures, apiVars, sideVars,
                  lost >>

\* any of the four awaited ledger calls rejects (lines 263-277)
LedgerCallThrows(i) ==
  /\ i \in 1..Len(executions)
  /\ Fail(i)

\* a 10-second timer scheduled by a finished execution fires
TimerFires ==
  /\ timers # << >>
  /\ timers' = Tail(timers)
  /\ relayer' = timerCallback(relayer)
  /\ UNCHANGED << phase, gasAI, executions, arrived, settled, lastRestored,
                  nFailures, apiVars, sideVars, lost >>

\* GET /api/status: getStatus() refreshes the reported state; the response is
\* sent and nothing of it is kept
GetStatus ==
  /\ phase = "started"
  /\ relayer' = syncState(relayer, gasAI)
  /\ injected' = NoIntent
  /\ UNCHANGED << phase, gasAI, executions, timers, arrived, settled,
                  lastRestored, nFailures, snap, lost, sideVars >>

Next ==
  \/ Start
  \/ \E p \in IntentPayloads : HandleIntent(p)
  \/ \E f \in BaseFees, out \in NetOutputs : OnBlock(f, out)
  \/ \E i \in 1..Len(executions), bal \in VaultBalances :
        VaultBalanceReturns(i, bal)
  \/ \E i \in 1..Len(executions) : EstimateGasReturns(i)
  \/ \E i \in 1..Len(executions) : TxSubmitted(i)
  \/ \E i \in 1..Len(executions) : TxConfirmed(i)
  \/ \E i \in 1..Len(executions) : LedgerCallThrows(i)
  \/ TimerFires
  \/ GetStatus

Spec == Init /\ [][Next]_vars

\* executions started so far that reached their first ledger call, and drains
Started == Len(executions) + Len(settled) + nFailures

Drains == Started + Len(lost)

\* an index synthesized from the pool size alone
demoIntentIndex_PoolOnly(state) == Len(state.pooledIntents)

\* POST /api/simulate-intent, line 96: the synthesized sequence index
demoIntentIndex(state) ==
  state.totalIntentsProcessed + Len(state.pooledIntents)

\* bodies of POST /api/simulate-intent (amount in the model's units; sender is
\* left to its default)
DemoBodies ==
  { [receiver |-> "r1", amount |-> 1],
    [receiver |-> NotAString, amount |-> 1],
    [receiver |-> Missing, amount |-> 1] }

\* POST /api/simulate-intent
SimulateIntent(body) ==
  /\ phase = "started"
  /\ Len(arrived) < MaxIntents
  /\ IF body.receiver = Missing
       THEN \* 400: receiver and amount are required
            UNCHANGED << relayer, executions, arrived, injected, lost >>
       ELSE LET r0 == syncState(relayer, gasAI)
                state == stateCopy(r0, gasAI)
                intent == [ id |-> Len(arrived) + 1,
                            receiver |-> body.receiver,
                            amount |-> body.amount,
                            intentIndex |-> demoIntentIndex(state) ]
                r1 == pushIntent(r0, intent, gasAI)
                \* handleIntent's log line throws on a receiver without slice,
                \* before the size trigger is looked at
                go == hasSlice(intent.receiver) /\ sizeTrigger(r1)
                        /\ canExecute(r1)
            IN  /\ arrived' = Append(arrived, intent)
                /\ relayer' = IF go THEN drainPool(r1, gasAI) ELSE r1
                /\ executions' = IF go /\ logsBatch(r1.intentPool)
                                   THEN Append(executions,
                                               newExecution(r1, "size",
                                                            Len(arrived) + 1))
                                   ELSE executions
                /\ lost' = IF go /\ ~ logsBatch(r1.intentPool)
                             THEN Append(lost, r1.intentPool)
                             ELSE lost
                /\ injected' = [ id |-> intent.id,
                                 self |-> go,
                                 drainsBefore |-> Drains ]
  /\ UNCHANGED << phase, gasAI, timers, settled, lastRestored, nFailures,
                  snap, sideVars >>

\* the relayer fed through the demo path only
ApiNext ==
  \/ Start
  \/ \E b \in DemoBodies : SimulateIntent(b)
  \/ \E f \in BaseFees, out \in NetOutputs : OnBlock(f, out)
  \/ \E i \in 1..Len(executions), bal \in VaultBalances :
        VaultBalanceReturns(i, bal)
  \/ \E i \in 1..Len(executions) : EstimateGasReturns(i)
  \/ \E i \in 1..Len(executions) : TxSubmitted(i)
  \/ \E i \in 1..Len(executions) : TxConfirmed(i)
  \/ \E i \in 1..Len(executions) : LedgerCallThrows(i)
  \/ TimerFires
  \/ GetStatus

ApiSpec == Init /\ [][ApiNext]_vars

\* through the kept object the caller would see the live pool
readThrough_LivePool(s, r) == [ s EXCEPT !.pooledIntents = r.intentPool ]

\* what a caller reads through a kept getStatus() result once the relayer is
\* in state r.  The spread at line 300 copies status and the counters;
\* pooledIntents, lastBatch and aiState are references to objects that lines
\* 285, 254 and 286 create afresh and that nothing writes afterwards
readThrough(s, r) == s

\* a client calls getStatus() and keeps the returned object
RetainStatus ==
  /\ phase = "started"
  /\ snap.status = "none"
  /\ relayer' = syncState(relayer, gasAI)
  /\ snap' = getStatus(relayer, gasAI)
  /\ injected' = NoIntent
  /\ UNCHANGED << phase, gasAI, executions, timers, arrived, settled,
                  lastRestored, nFailures, lost, sideVars >>

\* inputs of the relayer while one client keeps a getStatus() result
SnapPayloads == { [receiver |-> "r1", amount |-> 1] }
SnapOutputs == { 71 }

SnapNext ==
  \/ Start
  \/ \E p \in SnapPayloads : HandleIntent(p)
  \/ \E f \in BaseFees \ {0}, out \in SnapOutputs : OnBlock(f, out)
  \/ \E i \in 1..Len(executions), bal \in VaultBalances :
        VaultBalanceReturns(i, bal)
  \/ \E i \in 1..Len(executions) : EstimateGasReturns(i)
  \/ \E i \in 1..Len(executions) : TxSubmitted(i)
  \/ \E i \in 1..Len(executions) : TxConfirmed(i)
  \/ \E i \in 1..Len(executions) : LedgerCallThrows(i)
  \/ TimerFires
  \/ RetainStatus

SnapSpec == Init /\ [][SnapNext]_vars

\* failures that are followed when the order of the pool is looked at
MaxRestores == 3

\* any of the awaited ledger calls rejects, for the MaxRestores-th time at
\* most
LedgerCallThrowsAgain(i) ==
  /\ i \in 1..Len(executions)
  /\ FailUnder(i, MaxRestores)

\* the relayer with one kind of intent, blocks that make the predictor
\* confident, a vault that holds enough for every batch, and ledger calls
\* that reject up to MaxRestores times
OrderNext ==
  \/ Start
  \/ \E p \in SnapPayloads : HandleIntent(p)
  \/ \E f \in BaseFees \ {0}, out \in SnapOutputs : OnBlock(f, out)
  \/ \E i \in 1..Len(executions) : VaultBalanceReturns(i, MaxVaultBalance)
  \/ \E i \in 1..Len(executions) : EstimateGasReturns(i)
  \/ \E i \in 1..Len(executions) : TxSubmitted(i)
  \/ \E i \in 1..Len(executions) : TxConfirmed(i)
  \/ \E i \in 1..Len(executions) : LedgerCallThrowsAgain(i)
  \/ TimerFires

OrderSpec == Init /\ [][OrderNext]_vars

\* stop(): both removeAllListeners calls; the handlers cease to be invoked
Stop ==
  /\ phase \in {"started", "stopped"}
  /\ phase' = "stopped"
  /\ UNCHANGED << relayer, gasAI, executions, timers, arrived, settled,
                  nFailures, lastRestored, apiVars, lost, sideVars >>

\* the provider announces a block to the registered listener, which calls
\* getBlock and is suspended at the await of line 145
MaxPending == 1

BlockAnnounced ==
  /\ phase = "started"
  /\ pending < MaxPending
  /\ pending' = pending + 1
  /\ UNCHANGED << phase, relayer, gasAI, executions, timers, arrived, settled,
                  nFailures, lastRestored, apiVars, lost, absorbed, trainings,
                  vault, wallets, receipts, lab >>

\* the lookup of a suspended block handler returns (or throws: baseFee 0)
\* and the handler runs to its end
BlockLookupReturns(baseFee, out) ==
  /\ pending > 0
  /\ pending' = pending - 1
  /\ AbsorbBlock(baseFee, out)
  /\ UNCHANGED << absorbed, trainings, vault, wallets, receipts, lab >>

\* the relayer from construction to shutdown, with the block handler split
\* at its await
StopNext ==
  \/ Start
  \/ Stop
  \/ \E p \in SnapPayloads : HandleIntent(p)
  \/ BlockAnnounced
  \/ \E f \in BaseFees, out \in SnapOutputs : BlockLookupReturns(f, out)
  \/ \E i \in 1..Len(executions), bal \in VaultBalances :
        VaultBalanceReturns(i, bal)
  \/ \E i \in 1..Len(executions) : EstimateGasReturns(i)
  \/ \E i \in 1..Len(executions) : TxSubmitted(i)
  \/ \E i \in 1..Len(executions) : TxConfirmed(i)
  \/ \E i \in 1..Len(executions) : LedgerCallThrows(i)
  \/ TimerFires

StopSpec == Init /\ [][StopNext]_vars

\* fee samples handed to the predictor, and the number of them
FeeSamples == { GWEI, 2 * GWEI }
MaxAbsorbs == 12

\* addBlockDataAndTrain(baseFeeWei) called on the predictor
Absorb(baseFeeWei) ==
  /\ Len(absorbed) < MaxAbsorbs
  /\ gasAI' = addBlockDataAndTrain(gasAI, baseFeeWei)
  /\ absorbed' = Append(absorbed, baseFeeWei)
  /\ trainings' = IF windowFull(pushSample(gasAI, baseFeeWei))
                    THEN trainings + 1
                    ELSE trainings
  /\ UNCHANGED << phase, relayer, executions, timers, arrived, settled,
                  nFailures, lastRestored, apiVars, lost, pending, vault,
                  wallets, receipts, lab >>

\* the predictor on its own, fed any sequence of samples
PredNext == \E f \in FeeSamples : Absorb(f)

PredSpec == Init /\ [][PredNext]_vars

\* the predictor's public method called with any base fee, a fee of zero
\* included (the block listener passes non-zero fees only)
AnyFees == { 0, GWEI, 2 * GWEI }

TargetNext == \E f \in AnyFees : Absorb(f)

TargetSpec == Init /\ [][TargetNext]_vars

\* two predictors, each constructed with weights drawn by Math.random() (all
\* draws of one construction equal: 0.05 or 0.95) and then fed one fee per
\* block: the first a falling series from 2.0 to 1.1 gwei, the second the
\* same fees in rising order
InitWeights == { -9000, 9000 }
FeeStep == 100000000

fallingFee(k) == 2 * GWEI - (k - 1) * FeeStep
risingFee(k) == 2 * GWEI - (windowSize - k) * FeeStep

Construct(wf, wr) ==
  /\ ~ lab.built
  /\ lab' = [ built |-> TRUE,
              falling |-> newPredictor(wf),
              rising |-> newPredictor(wr) ]
  /\ UNCHANGED << phase, relayer, gasAI, executions, timers, arrived, settled,
                  nFailures, lastRestored, apiVars, lost, pending, absorbed,
                  trainings, vault, wallets, receipts >>

FeedFalling ==
  /\ lab.built
  /\ Len(lab.falling.historicalFees) < windowSize
  /\ lab' = [ lab EXCEPT !.falling =
                absorbSample(@, fallingFee(Len(@.historicalFees) + 1)) ]
  /\ UNCHANGED << phase, relayer, gasAI, executions, timers, arrived, settled,
                  nFailures, lastRestored, apiVars, lost, pending, absorbed,
                  trainings, vault, wallets, receipts >>

FeedRising ==
  /\ lab.built
  /\ Len(lab.rising.historicalFees) < windowSize
  /\ lab' = [ lab EXCEPT !.rising =
                absorbSample(@, risingFee(Len(@.historicalFees) + 1)) ]
  /\ UNCHANGED << phase, relayer, gasAI, executions, timers, arrived, settled,
                  nFailures, lastRestored, apiVars, lost, pending, absorbed,
                  trainings, vault, wallets, receipts >>

LabNext ==
  \/ \E wf \in InitWeights, wr \in InitWeights : Construct(wf, wr)
  \/ FeedFalling
  \/ FeedRising

LabSpec == Init /\ [][LabNext]_vars

\* ------------------------------------------------------------- AegisVault
\* the state a call runs on: the contract's storage, the native balances,
\* and the calls made from inside a receive function with their outcome
\* (kept even when the outer call reverts)
EvmState(v, w) == [ vault |-> v, wallets |-> w, nested |-> << >> ]

\* revert: storage and balances as before the call
Reverted(st0, error, nested) ==
  [ ok |-> FALSE, error |-> error, event |-> NULL,
    st |-> [ st0 EXCEPT !.nested = nested ] ]

Returned(st, event) ==
  [ ok |-> TRUE, error |-> NULL, event |-> event, st |-> st ]

\* a guard that lets everybody through
onlyRelayer_Anyone(v, sender) == TRUE

\* modifier onlyRelayer, lines 415-418
onlyRelayer(v, sender) == sender = v.relayer

\* a transfer loop that goes on after a failed transfer
transferFailed_Ignored(success) == FALSE

\* executeBatch(), line 488: `if (!success) revert TransferFailed()`
transferFailed(success) == ~ success

\* executeBatch(), lines 476-481: the error of the first entry that fails
\* a check, or NULL
firstInvalid(receivers, amounts) ==
  LET bad == { i \in 1..Len(receivers) :
                 receivers[i] = ZERO \/ amounts[i] = 0 }
  IN  IF bad = { }
        THEN NULL
        ELSE LET i == CHOOSE k \in bad : \A m \in bad : k <= m
             IN  IF receivers[i] = ZERO THEN "ZeroAddress" ELSE "ZeroAmount"

\* executeBatch(), lines 473-481: totalRequired
RECURSIVE totalRequired(_)
totalRequired(amounts) ==
  IF amounts = << >> THEN 0 ELSE Head(amounts) + totalRequired(Tail(amounts))

RECURSIVE executeBatch(_, _, _, _)

\* receivers[i].call{value: amounts[i]}(""), line 487: << success, state >>
sendValue(st, to, amount) ==
  LET paid == [ st EXCEPT !.wallets[VAULT] = @ - amount,
                          !.wallets[to] = @ + amount ]
  IN  CASE st.wallets[VAULT] < amount -> << FALSE, st >>
        [] to = Rejector -> << FALSE, st >>
        [] to = Reenterer ->
             LET r == executeBatch(paid, Reenterer, << Reenterer >>, << 1 >>)
             IN  << TRUE,
                    [ r.st EXCEPT !.nested =
                        Append(@, [ sender |-> Reenterer,
                                    ok |-> r.ok,
                                    error |-> r.error,
                                    changed |-> \/ r.st.vault # paid.vault
                                                \/ r.st.wallets
                                                     # paid.wallets ]) ] >>
        [] OTHER -> << TRUE, paid >>

\* executeBatch(), lines 486-490: the transfer loop from entry i on
RECURSIVE payOut(_, _, _, _)
payOut(st, receivers, amounts, i) ==
  IF i > Len(receivers)
    THEN << TRUE, st >>
    ELSE LET sent == sendValue(st, receivers[i], amounts[i])
         IN  IF transferFailed(sent[1])
               THEN << FALSE, sent[2] >>
               ELSE payOut(sent[2], receivers, amounts, i + 1)

\* executeBatch(receivers, amounts) called by sender, lines 465-493, with
\* the modifiers in the order they are written: nonReentrant, onlyRelayer
executeBatch(st, sender, receivers, amounts) ==
  IF st.vault.entered
    THEN Reverted(st, "ReentrancyGuardReentrantCall", st.nested)
  ELSE IF ~ onlyRelayer(st.vault, sender)
    THEN Reverted(st, "OnlyRelayer", st.nested)
  ELSE IF Len(receivers) = 0
    THEN Reverted(st, "EmptyBatch", st.nested)
  ELSE IF Len(receivers) # Len(amounts)
    THEN Reverted(st, "ArrayLengthMismatch", st.nested)
  ELSE IF firstInvalid(receivers, amounts) # NULL
    THEN Reverted(st, firstInvalid(receivers, amounts), st.nested)
  ELSE IF st.wallets[VAULT] < totalRequired(amounts)
    THEN Reverted(st, "InsufficientVaultBalance", st.nested)
  ELSE LET paid == payOut([ st EXCEPT !.vault.entered = TRUE ],
                          receivers, amounts, 1)
       IN  IF ~ paid[1]
             THEN Reverted(st, "TransferFailed", paid[2].nested)
             ELSE Returned([ paid[2] EXCEPT !.vault.entered = FALSE ],
                           [ name |-> "BatchExecuted",
                             batchSize |-> Len(receivers),
                             totalValue |-> totalRequired(amounts) ])

\* a counter that skips an index on every deposit
nextIntentIndex_Skips(v) == v.intentCounter + 1

\* deposit(), line 449: `_intentCounter++` yields the index of the deposit
nextIntentIndex(v) == v.intentCounter

\* deposit(_intendedReceiver) called by sender with msg.value = value, lines
\* 442-451; the value is on the vault's balance while the function runs
deposit(st, sender, intendedReceiver, value) ==
  LET funded == [ st EXCEPT !.wallets[sender] = @ - value,
                            !.wallets[VAULT] = @ + value ]
      idx == nextIntentIndex(st.vault)
  IN  IF st.vault.entered
        THEN Reverted(st, "ReentrancyGuardReentrantCall", st.nested)
      ELSE IF value = 0
        THEN Reverted(st, "ZeroAmount", st.nested)
      ELSE IF intendedReceiver = ZERO
        THEN Reverted(st, "ZeroAddress", st.nested)
      ELSE Returned([ funded EXCEPT !.vault.deposits[sender] = @ + value,
                                    !.vault.intentCounter = idx + 1 ],
                    [ name |-> "IntentRegistered",
                      sender |-> sender,
                      receiver |-> intendedReceiver,
                      amount |-> value,
                      intentIndex |-> idx ])

\* a guard that lets everybody through
onlyOwner_Anyone(v, sender) == TRUE

\* modifier onlyOwner (Ownable): the caller is the owner
onlyOwner(v, sender) == sender = v.owner

\* setRelayer(_newRelayer) called by sender, lines 503-507
setRelayer(st, sender, newRelayer) ==
  IF ~ onlyOwner(st.vault, sender)
    THEN Reverted(st, "OwnableUnauthorizedAccount", st.nested)
  ELSE IF newRelayer = ZERO
    THEN Reverted(st, "ZeroAddress", st.nested)
  ELSE Returned([ st EXCEPT !.vault.relayer = newRelayer ],
                [ name |-> "RelayerUpdated",
                  oldRelayer |-> st.vault.relayer,
                  newRelayer |-> newRelayer ])

\* emergencyWithdraw(to, amount) called by sender, lines 514-519, with the
\* modifiers in the order they are written: onlyOwner, nonReentrant
emergencyWithdraw(st, sender, to, amount) ==
  IF ~ onlyOwner(st.vault, sender)
    THEN Reverted(st, "OwnableUnauthorizedAccount", st.nested)
  ELSE IF st.vault.entered
    THEN Reverted(st, "ReentrancyGuardReentrantCall", st.nested)
  ELSE IF to = ZERO
    THEN Reverted(st, "ZeroAddress", st.nested)
  ELSE IF st.wallets[VAULT] < amount
    THEN Reverted(st, "InsufficientVaultBalance", st.nested)
  ELSE LET sent == sendValue([ st EXCEPT !.vault.entered = TRUE ], to, amount)
       IN  IF ~ sent[1]
             THEN Reverted(st, "TransferFailed", sent[2].nested)
             ELSE Returned([ sent[2] EXCEPT !.vault.entered = FALSE ], NULL)

\* receive(), line 540: a plain transfer of value from sender is accepted
plainTransfer(st, sender, value) ==
  Returned([ st EXCEPT !.wallets[sender] = @ - value,
                       !.wallets[VAULT] = @ + value ], NULL)

\* totalIntents(), lines 531-533
totalIntents(v) == v.intentCounter

\* arguments of the transactions sent to the vault
Senders == { "owner", "relayer", "alice" }
IntendedReceivers == { ZERO, "bob" }
BatchReceivers == { ZERO, "bob", Rejector, Reenterer, VAULT }
NewRelayers == { ZERO, "relayer", "alice" }

\* (receivers, amounts) pairs: the empty batch, every batch of one entry
\* with an amount up to 2, every batch of two entries with amounts up to 1,
\* and three pairs of unequal lengths
Batches ==
  { << << >>, << >> >> }
    \cup { << << a >>, << x >> >> : a \in BatchReceivers, x \in 0..2 }
    \cup { << << a, b >>, << x, y >> >> :
             a \in BatchReceivers, b \in BatchReceivers,
             x \in 0..1, y \in 0..1 }
    \cup { << << "bob" >>, << >> >>,
           << << >>, << 1 >> >>,
           << << "bob" >>, << 1, 1 >> >> }

relayerVars == << phase, relayer, gasAI, executions, timers, arrived, settled,
                 nFailures, lastRestored, apiVars, lost, pending, absorbed,
                 trainings, lab >>

\* the outcome of a transaction becomes the state
Mined(fn, sender, r) ==
  /\ vault' = r.st.vault
  /\ wallets' = r.st.wallets
  /\ receipts' =
       [ intents |-> IF r.ok /\ fn = "deposit"
                       THEN Append(receipts.intents, r.event)
                       ELSE receipts.intents,
         last |-> [ fn |-> fn, ok |-> r.ok, error |-> r.error,
                    nested |-> r.st.nested ] ]
  /\ UNCHANGED relayerVars

\* a depositor sends deposit(intendedReceiver) with a value it owns
Deposit(sender, intendedReceiver, value) ==
  /\ \/ Len(receipts.intents) < MaxDeposits
     \/ value = 0
     \/ intendedReceiver = ZERO
  /\ wallets[sender] >= value
  /\ Mined("deposit", sender,
           deposit(EvmState(vault, wallets), sender, intendedReceiver, value))

\* an account sends executeBatch(receivers, amounts)
ExecuteBatch(sender, receivers, amounts) ==
  Mined("executeBatch", sender,
        executeBatch(EvmState(vault, wallets), sender, receivers, amounts))

\* an account sends setRelayer(newRelayer)
SetRelayer(sender, newRelayer) ==
  Mined("setRelayer", sender,
        setRelayer(EvmState(vault, wallets), sender, newRelayer))

VaultNext ==
  \/ \E s \in Depositors, r \in IntendedReceivers, x \in Values :
        Deposit(s, r, x)
  \/ \E s \in Senders, b \in Batches : ExecuteBatch(s, b[1], b[2])
  \/ \E s \in Senders, n \in NewRelayers : SetRelayer(s, n)

VaultSpec == Init /\ [][VaultNext]_vars

\* the owner (or somebody else) sends emergencyWithdraw(to, amount)
EmergencyWithdraw(sender, to, amount) ==
  Mined("emergencyWithdraw", sender,
        emergencyWithdraw(EvmState(vault, wallets), sender, to, amount))

\* an account sends value it owns to the vault without calling a function
PlainTransfer(sender, value) ==
  /\ wallets[sender] >= value
  /\ Mined("receive", sender,
           plainTransfer(EvmState(vault, wallets), sender, value))

\* arguments of the transactions that move the vault's funds
FundsBatches ==
  { << << a >>, << x >> >> : a \in BatchReceivers, x \in 1..2 }
    \cup { << << "bob", VAULT >>, << 1, 1 >> >> }
WithdrawTargets == { ZERO, "owner", Rejector, VAULT }
WithdrawAmounts == 0..2

\* deposits, plain transfers, batches and emergency withdrawals in any order
FundsNext ==
  \/ \E r \in IntendedReceivers, x \in Values : Deposit("alice", r, x)
  \/ \E x \in Values : PlainTransfer("carol", x)
  \/ \E s \in Senders, b \in FundsBatches : ExecuteBatch(s, b[1], b[2])
  \/ \E s \in Senders, t \in WithdrawTargets, x \in WithdrawAmounts :
        EmergencyWithdraw(s, t, x)

FundsSpec == Init /\ [][FundsNext]_vars

\* a continuation of executeBatch runs: an awaited ledger call has returned
\* or rejected
ExecutorStep ==
  \E i \in 1..Len(executions) :
     \/ \E bal \in VaultBalances : VaultBalanceReturns(i, bal)
     \/ EstimateGasReturns(i)
     \/ TxSubmitted(i)
     \/ TxConfirmed(i)
     \/ LedgerCallThrows(i)

\* the relayer under the event loop's scheduling: a pending timer fires and a
\* settled promise's continuation runs; the two feeds and the HTTP clients
\* owe nothing
LiveSpec ==
  /\ Init
  /\ [][Next]_vars
  /\ WF_vars(TimerFires)
  /\ WF_vars(ExecutorStep)

\* ------------------------------------------------------- derived history
\* the step enqueues an intent
EnqueueStep == Len(arrived') = Len(arrived) + 1

\* the step starts an execution
StartStep == Len(executions') = Len(executions) + 1

\* the step is the failure (the success) of activation i
FailStep(i) ==
  nFailures' = nFailures + 1 /\ executions' = RemoveAt(executions, i)

SuccessStep(i) ==
  Len(settled') = Len(settled) + 1 /\ executions' = RemoveAt(executions, i)

\* the 10-second timer of a failed execution is still pending
CooldownPending == \E k \in 1..Len(timers) : timers[k]

InFlightBatches == Map(executions, LAMBDA e : e.batch)

\* ------------------------------------------------------------------ claims

\* C1: at most one batch execution is in flight at any time: executeBatch
\* never drains the pool while an earlier execution has not completed.
\* (The timer scheduled by an earlier execution clears isExecuting while a
\* later execution is still awaiting the ledger, so this fails.)
C1_AtMostOneInFlight == Len(executions) <= 1

\* C2: intent conservation: the intents in the pool together with those in
\* drained-but-unfinished batches and those in settled batches are exactly
\* the intents ever enqueued, each one once.
C2_IntentConservation ==
  LET all == relayer.intentPool \o Flatten(InFlightBatches) \o Flatten(settled)
  IN  /\ Len(all) = Len(arrived)
      /\ Range(all) = Range(arrived)

C2_Witness ==
  /\ nFailures > 0
  /\ settled # << >>
  /\ executions # << >>
  /\ relayer.intentPool # << >>

\* C3: draining is exactly-once: a drain takes the whole pool, so the pool and
\* the batches in flight are pairwise disjoint, and no intent is in two
\* settled batches.
C3_DrainExactlyOnce ==
  /\ \A i, j \in 1..Len(executions) :
       i # j => Range(executions[i].batch) \cap Range(executions[j].batch) = {}
  /\ \A i \in 1..Len(executions) :
       Range(executions[i].batch) \cap Range(relayer.intentPool) = {}
  /\ \A i, j \in 1..Len(settled) :
       i # j => Range(settled[i]) \cap Range(settled[j]) = {}
  /\ \A i \in 1..Len(settled), j \in 1..Len(executions) :
       Range(settled[i]) \cap Range(executions[j].batch) = {}

C3_Witness == Len(executions) >= 2 /\ Len(settled) >= 1

\* C4: when an execution fails, the pool afterwards is exactly the drained
\* intents in their original order followed by the intents enqueued during
\* the attempt, in arrival order.
\* (Fails when a second execution, started after the timer cleared the flag,
\* has drained the intents that arrived during the attempt.)
C4_FailureRestoresInOrder ==
  [][ \A i \in 1..Len(executions) :
        FailStep(i) =>
          relayer'.intentPool =
            executions[i].batch
              \o SubSeq(arrived, executions[i].drainedAt + 1, Len(arrived)) ]_vars

\* C5 (as claimed): whenever an enqueue makes the pool size >= the threshold,
\* that enqueue starts an execution whose batch contains the triggering intent.
C5_SizeTriggerAlways ==
  [][ (EnqueueStep /\ Len(relayer.intentPool) + 1 >= batchSizeThreshold) =>
        /\ StartStep
        /\ relayer'.intentPool = << >>
        /\ LET b == executions'[Len(executions')].batch
           IN  b[Len(b)] = arrived'[Len(arrived')] ]_vars

\* C5 (amended): whenever an enqueue makes the pool size >= the threshold
\* while isExecuting is false, that enqueue starts an execution that drains
\* the whole pool, the triggering intent last; while isExecuting is true the
\* intent is only appended to the pool.
C5_SizeTriggerUnlessExecuting ==
  [][ (EnqueueStep /\ Len(relayer.intentPool) + 1 >= batchSizeThreshold) =>
        IF relayer.isExecuting
          THEN /\ executions' = executions
               /\ relayer'.intentPool =
                    Append(relayer.intentPool, arrived'[Len(arrived')])
          ELSE /\ StartStep
               /\ relayer'.intentPool = << >>
               /\ LET b == executions'[Len(executions')].batch
                  IN  /\ b = Append(relayer.intentPool, arrived'[Len(arrived')])
                      /\ b[Len(b)] = arrived'[Len(arrived')] ]_vars

C5_Witness ==
  /\ executions # << >>
  /\ relayer.intentPool = << >>
  /\ LET e == executions[Len(executions)]
     IN  /\ e.trigger = "size"
         /\ e.pc = "vaultBalance"
         /\ Len(e.batch) >= batchSizeThreshold
         /\ e.batch[Len(e.batch)] = arrived[Len(arrived)]

\* C6: after a failed execution no new execution starts, from either trigger,
\* until the cooldown timer of that failure has fired.
\* (The finally block clears isExecuting at once, so the next trigger starts
\* an execution while the timer is still pending.)
C6_NoStartDuringCooldown == [][ CooldownPending => ~ StartStep ]_vars

\* C7: ERROR is not terminal: with status ERROR and the cooldown elapsed, a
\* fee sample that leaves the predictor ready with a score above 0.7 starts an
\* execution whose batch is the pool, which begins with the intents restored
\* by the failure; and a successful execution leaves the status POOLING or
\* IDLE.
C7_ErrorSelfHeals ==
  [][ /\ \A f \in BaseFees \ {0}, out \in NetOutputs :
           ( /\ relayer.status = "ERROR"
             /\ ~ CooldownPending
             /\ gasAI'.isTrained
             /\ relayer'.currentAiScore > CUTOFF
             /\ OnBlock(f, out) )
           => /\ StartStep
              /\ lastRestored # << >>
              /\ LET b == executions'[Len(executions')].batch
                 IN  b = relayer.intentPool /\ IsPrefix(lastRestored, b)
              /\ relayer'.status = "EXECUTING"
      /\ \A i \in 1..Len(executions) :
           SuccessStep(i) => relayer'.status \in {"POOLING", "IDLE"} ]_vars

C7_Witness ==
  /\ nFailures > 0
  /\ ~ CooldownPending
  /\ relayer.status = "EXECUTING"
  /\ executions # << >>
  /\ LET e == executions[Len(executions)]
     IN  /\ e.trigger = "fee"
         /\ e.pc = "vaultBalance"
         /\ IsPrefix(lastRestored, e.batch)

\* C8: the fee-sample call site starts an execution exactly when, after the
\* sample is absorbed, the predictor is ready, the score is strictly above
\* 0.7, the pool is non-empty and no execution is in flight.
\* (Fails: after the timer cleared isExecuting the call site starts an
\* execution although one is in flight.)
C8_FeeTriggerExactly ==
  [][ \A f \in BaseFees \ {0}, out \in NetOutputs :
        OnBlock(f, out) =>
          ( StartStep <=>
              /\ gasAI'.isTrained
              /\ relayer'.currentAiScore > CUTOFF
              /\ relayer.intentPool # << >>
              /\ executions = << >> ) ]_vars

\* C9: an enqueue that leaves the pool below the threshold starts no
\* execution; as long as no execution has started, the pool holds the
\* arrived intents in order and the status is POOLING.
C9_BelowThresholdPools ==
  /\ [] ( (Started = 0 /\ Len(arrived) >= 1) =>
            /\ relayer.intentPool = arrived
            /\ relayer.pooledIntents = arrived
            /\ relayer.status = "POOLING" )
  /\ [][ (EnqueueStep /\ Len(relayer.intentPool) + 1 < batchSizeThreshold) =>
           /\ executions' = executions
           /\ relayer'.intentPool =
                Append(relayer.intentPool, arrived'[Len(arrived')])
           /\ relayer.status \notin {"EXECUTING", "ERROR"} =>
                relayer'.status = "POOLING" ]_vars

C9_Witness ==
  /\ Started = 0
  /\ Len(arrived) = batchSizeThreshold - 1
  /\ relayer.intentPool = arrived
  /\ relayer.status = "POOLING"
  /\ gasAI.isTrained

\* C10: the counters count successes only: totalBatchesExecuted is the number
\* of settled batches, totalIntentsProcessed the sum of their sizes, and a
\* failed execution changes neither counter nor the last-batch summary.
C10_CountersCountSuccesses ==
  /\ [] ( /\ relayer.totalBatchesExecuted = Len(settled)
          /\ relayer.totalIntentsProcessed = Len(Flatten(settled)) )
  /\ [][ \A i \in 1..Len(executions) :
           FailStep(i) =>
             /\ relayer'.totalBatchesExecuted = relayer.totalBatchesExecuted
             /\ relayer'.totalIntentsProcessed = relayer.totalIntentsProcessed
             /\ relayer'.lastBatch = relayer.lastBatch ]_vars

C10_Witness ==
  /\ nFailures > 0
  /\ relayer.totalBatchesExecuted >= 1
  /\ relayer.totalIntentsProcessed >= 2
  /\ relayer.lastBatch.txHash # NULL

\* C11: when an execution completes successfully the status becomes POOLING
\* if the pool is non-empty (intents were enqueued meanwhile) and IDLE
\* otherwise, and the last-batch summary holds the size and the aggregate
\* amount of exactly the batch that execution drained.
C11_SuccessStatusAndSummary ==
  [][ \A i \in 1..Len(executions) :
        SuccessStep(i) =>
          /\ relayer'.status =
               IF relayer'.intentPool # << >> THEN "POOLING" ELSE "IDLE"
          /\ relayer'.lastBatch.batchSize = Len(executions[i].batch)
          /\ relayer'.lastBatch.totalValue =
               formatEther(SumAmounts(executions[i].batch))
          /\ relayer'.lastBatch.txHash = executions[i].txHash
          /\ settled'[Len(settled')] = executions[i].batch ]_vars

C11_Witness ==
  /\ nFailures = 0
  /\ executions = << >>
  /\ settled # << >>
  /\ relayer.intentPool # << >>
  /\ relayer.status = "POOLING"
  /\ relayer.lastBatch.batchSize = Len(settled[Len(settled)])
  /\ relayer.lastBatch.totalValue =
       formatEther(SumAmounts(settled[Len(settled)]))

\* C12: a call of executeBatch while an execution is in progress changes
\* nothing: the pool, the flag, the status, the counters and the last-batch
\* summary are as they were when executeBatch was called (after the push of
\* handleIntent, after the score update of the block listener) and no
\* execution starts.  (Both call sites call executeBatch on a non-empty pool
\* only, so the empty-pool case never arises.)
\* (Fails: after the timer cleared isExecuting, executeBatch drains the pool
\* although an execution is in progress.)
C12_NoOpWhenBusy ==
  [][ /\ (executions # << >> /\ EnqueueStep) =>
           /\ executions' = executions
           /\ relayer' = pushIntent(relayer, arrived'[Len(arrived')], gasAI)
      /\ \A f \in BaseFees \ {0}, out \in NetOutputs :
           (executions # << >> /\ OnBlock(f, out)) =>
             /\ executions' = executions
             /\ relayer' =
                  [ relayer EXCEPT
                      !.currentGasGwei = toFixedGwei(f),
                      !.currentAiScore = shouldExecuteBatch(gasAI', out)[2] ]
    ]_vars

\* C13: when vaultBalance() returns less than the batch's aggregate amount,
\* the attempt submits no settlement call and ends on the failure path: the
\* batch is put back at the front of the pool and the status is ERROR.
C13_InsufficientFundsFails ==
  [][ \A i \in 1..Len(executions) :
        ( /\ executions[i].pc = "vaultBalance"
          /\ executions' # executions
          /\ arrived' = arrived
          /\ gasAI' = gasAI
          /\ \E bal \in VaultBalances :
                /\ bal < SumAmounts(executions[i].batch)
                /\ VaultBalanceReturns(i, bal) )
        => /\ FailStep(i)
           /\ executions[i].txHash = NULL
           /\ settled' = settled
           /\ \A j \in 1..Len(executions') : executions'[j].pc # "wait"
                                               \/ executions'[j] \in Range(executions)
           /\ relayer'.intentPool = executions[i].batch \o relayer.intentPool
           /\ relayer'.pooledIntents = relayer'.intentPool
           /\ relayer'.status = "ERROR" ]_vars

C13_Witness ==
  /\ nFailures > 0
  /\ settled = << >>
  /\ relayer.status = "ERROR"
  /\ relayer.lastBatch.txHash = NULL
  /\ SumAmounts(lastRestored) > MaxVaultBalance
  /\ IsPrefix(lastRestored, relayer.intentPool)

\* C14: the content of a batch is fixed at the drain: a batch in flight holds
\* only intents that had arrived when it was drained, an enqueue changes no
\* execution in flight and puts the intent in the pool (or in the batch of
\* the execution it starts), and a success adds exactly the batch size to
\* totalIntentsProcessed and leaves the pooled intents in the pool.
C14_BatchFixedAtDrain ==
  /\ [] ( \A i \in 1..Len(executions) :
            \A k \in 1..Len(executions[i].batch) :
               executions[i].batch[k].id <= executions[i].drainedAt )
  /\ [][ /\ EnqueueStep =>
              /\ \A i \in 1..Len(executions) : executions'[i] = executions[i]
              /\ LET n == arrived'[Len(arrived')]
                 IN  IF StartStep
                       THEN n \in Range(executions'[Len(executions')].batch)
                       ELSE n = relayer'.intentPool[Len(relayer'.intentPool)]
         /\ \A i \in 1..Len(executions) :
              SuccessStep(i) =>
                /\ relayer'.totalIntentsProcessed =
                     relayer.totalIntentsProcessed + Len(executions[i].batch)
                /\ relayer'.lastBatch.batchSize = Len(executions[i].batch)
                /\ relayer'.intentPool = relayer.intentPool ]_vars

C14_Witness ==
  /\ executions # << >>
  /\ executions[1].pc = "wait"
  /\ \E k \in 1..Len(relayer.intentPool) :
       relayer.intentPool[k].id > executions[1].drainedAt

\* C15: the status getStatus returns is the stored status when that is
\* EXECUTING or ERROR, and otherwise POOLING exactly when the pool is
\* non-empty and IDLE exactly when it is empty, whatever the stored status
\* (start() writes POOLING on an empty pool).
C15_SnapshotStatus ==
  LET s == getStatus(relayer, gasAI).status
  IN  IF relayer.status \in {"EXECUTING", "ERROR"}
        THEN s = relayer.status
        ELSE /\ s \in {"POOLING", "IDLE"}
             /\ s = "POOLING" <=> relayer.intentPool # << >>
             /\ s = "IDLE" <=> relayer.intentPool = << >>

\* start() has written POOLING, getStatus has turned it into IDLE
C15_Witness ==
  /\ phase = "started"
  /\ arrived = << >>
  /\ relayer.status = "IDLE"

\* C17: whenever control is back at the event loop the reported
\* pooledIntents list is the pool: same intents, same order, same length.
C17_ReportedPoolIsPool == relayer.pooledIntents = relayer.intentPool

C17_Witness ==
  /\ nFailures > 0
  /\ executions = << >>
  /\ Len(relayer.intentPool) > Len(lastRestored)
  /\ IsPrefix(lastRestored, relayer.intentPool)
  /\ relayer.pooledIntents = relayer.intentPool

\* C19: timeout trigger: once intents are pooled below the size threshold
\* and no execution is in flight, an execution starts eventually even if no
\* further intent arrives (a fee-sample trigger would start one as well).
\* (Fails: config.batchTimeoutMs is never read and no timer calls
\* executeBatch; the pool waits for the next intent or fee trigger.)
C19_TimeoutTrigger ==
  \A n \in 1..MaxIntents :
     ( /\ Len(arrived) = n
       /\ executions = << >>
       /\ relayer.intentPool # << >>
       /\ Len(relayer.intentPool) < batchSizeThreshold )
     ~> ( executions # << >> \/ Len(arrived) > n )

C20_NoErrorEscapes ==
  /\ lost = << >>
  /\ relayer.isExecuting => executions # << >>

\* C21: an enqueue is never blocked or rejected by an execution: whenever
\* the relayer is started, whatever its status and whatever ledger call its
\* executions are waiting for, handleIntent can run, and the step it takes
\* leaves every execution in flight where it was and puts the intent at the
\* tail of the pool, which grows by exactly one (the enlarged pool is the
\* batch when the same call reaches the size trigger and drains it).
C21_EnqueueNeverBlocked ==
  /\ [] ( (phase = "started" /\ Len(arrived) < MaxIntents) =>
            \A p \in IntentPayloads : ENABLED HandleIntent(p) )
  /\ [][ EnqueueStep =>
           LET n == arrived'[Len(arrived')]
               grown == Append(relayer.intentPool, n)
           IN  /\ \A i \in 1..Len(executions) : executions'[i] = executions[i]
               /\ IF StartStep
                    THEN /\ relayer'.intentPool = << >>
                         /\ executions'[Len(executions')].batch = grown
                    ELSE /\ relayer'.intentPool = grown
                         /\ Len(relayer'.intentPool)
                              = Len(relayer.intentPool) + 1 ]_vars

\* an intent was enqueued in status ERROR (it reached the size trigger on top
\* of the restored batch) and another one while that execution is in flight
C21_Witness ==
  /\ nFailures > 0
  /\ lastRestored # << >>
  /\ executions # << >>
  /\ relayer.status = "EXECUTING"
  /\ LET e == executions[Len(executions)]
     IN  /\ e.trigger = "size"
         /\ IsPrefix(lastRestored, e.batch)
         /\ Len(e.batch) > Len(lastRestored)
         /\ \E k \in 1..Len(relayer.intentPool) :
               relayer.intentPool[k].id > e.drainedAt

\* C22: a block whose lookup yields no usable base fee (none, or the lookup
\* throws) changes nothing: the pool, the reported state, the predictor's
\* window and readiness, the executing flag and the status stay as they
\* are, and no execution starts.
C22_UnusableBlockChangesNothing ==
  [][ (\E out \in NetOutputs : OnBlock(0, out)) =>
        /\ relayer' = relayer
        /\ gasAI' = gasAI
        /\ executions' = executions
        /\ lost' = lost
        /\ timers' = timers ]_vars

\* a state in which a block with a usable fee and the same network output
\* would start an execution: the predictor is ready with a score above the
\* cutoff, intents wait in the pool and nothing is executing
C22_Witness ==
  /\ phase = "started"
  /\ gasAI.isTrained
  /\ relayer.currentAiScore > CUTOFF
  /\ relayer.intentPool # << >>
  /\ ~ relayer.isExecuting
  /\ \E out \in NetOutputs : ENABLED OnBlock(0, out)

\* C23: once stop() has returned nothing is consumed any more: no intent is
\* enqueued, the predictor absorbs no sample, no fee-triggered execution
\* starts, and a further stop() changes nothing.
\* (Fails: removeAllListeners does not reach a block handler that is already
\* suspended at `await getBlock`; when the lookup returns after stop() the
\* handler feeds the predictor and may start an execution.)
C23_StopCeasesConsumption ==
  [][ phase = "stopped" =>
        /\ arrived' = arrived
        /\ gasAI' = gasAI
        /\ ~ ( StartStep /\ executions'[Len(executions')].trigger = "fee" )
        /\ Stop => UNCHANGED vars ]_vars

\* C24: the predictor is ready exactly when at least windowSize samples have
\* been absorbed; it becomes ready at the windowSize-th absorb and never
\* goes back, and as long as it is not ready shouldExecuteBatch returns
\* (false, 0) whatever the network would output.
C24_ColdUntilWindowFull ==
  /\ [] ( /\ gasAI.isTrained <=> Len(absorbed) >= windowSize
          /\ ~ gasAI.isTrained =>
                \A out \in 0..100 :
                   shouldExecuteBatch(gasAI, out) = << FALSE, 0 >> )
  /\ [][ /\ gasAI.isTrained => gasAI'.isTrained
         /\ (~ gasAI.isTrained /\ gasAI'.isTrained) =>
               Len(absorbed') = windowSize ]_vars

\* the predictor has become ready and has absorbed a further sample
C24_Witness ==
  /\ gasAI.isTrained
  /\ Len(absorbed) = windowSize + 1
  /\ shouldExecuteBatch(gasAI, 71) = << TRUE, 71 >>

\* C25: the window never holds more than windowSize samples and is the
\* last min(k, windowSize) of the k absorbed samples in absorption order; an
\* absorb into a full window drops exactly the oldest sample, and every
\* absorb that leaves the window full runs trainModel exactly once.
C25_WindowIsFifo ==
  /\ [] ( /\ Len(gasAI.historicalFees) <= windowSize
          /\ gasAI.historicalFees
               = LastN(absorbed, Min(Len(absorbed), windowSize))
          /\ trainings = IF Len(absorbed) >= windowSize
                           THEN Len(absorbed) - windowSize + 1
                           ELSE 0 )
  /\ [][ \A f \in FeeSamples :
           (Absorb(f) /\ Len(gasAI.historicalFees) = windowSize) =>
              /\ gasAI'.historicalFees
                   = Append(Tail(gasAI.historicalFees), f)
              /\ trainings' = trainings + 1 ]_vars

\* the window is full of samples that are not all equal and the first
\* absorbed sample, which differs from the second, has been evicted
C25_Witness ==
  /\ Len(absorbed) = windowSize + 1
  /\ absorbed[1] # absorbed[2]
  /\ gasAI.historicalFees[1] = absorbed[2]
  /\ gasAI.historicalFees[windowSize] = absorbed[windowSize + 1]
  /\ trainings = 2

\* C26: of two predictors that have each absorbed windowSize samples and
\* trained, the one fed a strictly decreasing series reports a higher
\* confidence score than the one fed a strictly increasing series.
\* (Fails: the score after training depends on the weights Math.random()
\* drew.  200 updates at learning rate 0.1 do not bring a network that
\* starts saturated near 1 down to its target of 0.01, so the predictor fed
\* rising fees can still score 0.99 while the one fed falling fees scores
\* 0.74.)
C26_FallingScoresHigher ==
  ( /\ lab.built
    /\ lab.falling.isTrained
    /\ lab.rising.isTrained )
  => confidenceScore(lab.falling) > confidenceScore(lab.rising)

\* the state of the chain as a call finds it
Chain == EvmState(vault, wallets)

\* what the entries of a batch send to account a
RECURSIVE sentTo(_, _, _)
sentTo(receivers, amounts, a) ==
  IF receivers = << >>
    THEN 0
    ELSE (IF Head(receivers) = a THEN Head(amounts) ELSE 0)
           + sentTo(Tail(receivers), Tail(amounts), a)

\* C27 as stated: every executeBatch call from an address that is not the
\* current relayer reverts with OnlyRelayer and changes nothing, the calls a
\* receiver makes from its receive function included.
C27_OnlyRelayerError ==
  /\ \A s \in Senders, b \in Batches :
       s # vault.relayer =>
         LET r == executeBatch(Chain, s, b[1], b[2])
         IN  /\ ~ r.ok
             /\ r.error = "OnlyRelayer"
             /\ r.st.vault = vault
             /\ r.st.wallets = wallets
  /\ \A k \in 1..Len(receipts.last.nested) :
       LET c == receipts.last.nested[k]
       IN  c.sender # vault.relayer =>
             ~ c.ok /\ c.error = "OnlyRelayer" /\ ~ c.changed

\* C27: every executeBatch call from an address that is not the current
\* relayer reverts and changes no balance and no storage; the error is
\* OnlyRelayer for a call that arrives while no guarded function is running,
\* and the reentrancy guard's error for a call made by a receiver from
\* inside a running executeBatch.
C27_OnlyRelayerExecutes ==
  /\ \A s \in Senders, b \in Batches :
       s # vault.relayer =>
         LET r == executeBatch(Chain, s, b[1], b[2])
         IN  /\ ~ r.ok
             /\ r.error = "OnlyRelayer"
             /\ r.st.vault = vault
             /\ r.st.wallets = wallets
  /\ \A k \in 1..Len(receipts.last.nested) :
       LET c == receipts.last.nested[k]
       IN  c.sender # vault.relayer =>
             /\ ~ c.ok
             /\ c.error = "ReentrancyGuardReentrantCall"
             /\ ~ c.changed

\* the relayer has been replaced, the vault holds funds, and an executeBatch
\* call has just been turned away with OnlyRelayer
C27_Witness ==
  /\ vault.relayer = "alice"
  /\ wallets[VAULT] > 0
  /\ receipts.last.fn = "executeBatch"
  /\ ~ receipts.last.ok
  /\ receipts.last.error = "OnlyRelayer"
  /\ \E b \in Batches : executeBatch(Chain, "alice", b[1], b[2]).ok

\* C28: executeBatch called by the relayer reverts on an empty batch, on
\* lists of different lengths, on a zero-address receiver, on a zero amount,
\* on a total above the vault's balance and on a transfer that fails; a
\* call that reverts leaves every balance and the storage as they were.
C28_AllOrNothing ==
  \A b \in Batches :
     LET receivers == b[1]
         amounts == b[2]
         r == executeBatch(Chain, vault.relayer, receivers, amounts)
     IN  /\ receivers = << >> => ~ r.ok
         /\ Len(receivers) # Len(amounts) => ~ r.ok
         /\ (\E i \in 1..Len(receivers) : receivers[i] = ZERO) => ~ r.ok
         /\ (\E i \in 1..Len(amounts) : amounts[i] = 0) => ~ r.ok
         /\ wallets[VAULT] < totalRequired(amounts) => ~ r.ok
         /\ (\E i \in 1..Len(receivers) : receivers[i] = Rejector)
              => ~ r.ok
         /\ ~ r.ok =>
              /\ r.st.vault = vault
              /\ r.st.wallets = wallets
              /\ r.event = NULL
              /\ r.error \in { "EmptyBatch", "ArrayLengthMismatch",
                                "ZeroAddress", "ZeroAmount",
                                "InsufficientVaultBalance", "TransferFailed" }

\* a batch has reverted on a failed transfer after an earlier transfer of
\* the same batch had gone through (the receiver's call back is on record),
\* and that receiver holds nothing
C28_Witness ==
  /\ receipts.last.fn = "executeBatch"
  /\ receipts.last.error = "TransferFailed"
  /\ receipts.last.nested # << >>
  /\ wallets[Reenterer] = 0
  /\ wallets[VAULT] >= 2

\* C29: a successful executeBatch adds to every receiver the sum of the
\* amounts of its entries, takes the sum of all amounts from the vault's
\* balance and emits BatchExecuted with the batch length and that sum.
\* (Fails: the vault's own address is accepted as a receiver; the transfer
\* to itself succeeds, the balance does not fall by that amount, and
\* BatchExecuted reports a total that never left the vault.)
C29_BatchCreditsReceivers ==
  \A b \in Batches :
     LET receivers == b[1]
         amounts == b[2]
         r == executeBatch(Chain, vault.relayer, receivers, amounts)
     IN  r.ok =>
           /\ \A a \in Accounts \ { VAULT } :
                r.st.wallets[a] = wallets[a] + sentTo(receivers, amounts, a)
           /\ r.st.wallets[VAULT] = wallets[VAULT] - totalRequired(amounts)
           /\ r.event = [ name |-> "BatchExecuted",
                          batchSize |-> Len(receivers),
                          totalValue |-> totalRequired(amounts) ]

\* the sum of the amounts of the deposits of one sender
RECURSIVE depositedBy(_, _)
depositedBy(intents, a) ==
  IF intents = << >>
    THEN 0
    ELSE (IF Head(intents).sender = a THEN Head(intents).amount ELSE 0)
           + depositedBy(Tail(intents), a)

\* C30: the n-th successful deposit (from 0) emits IntentRegistered with
\* intentIndex n, totalIntents is the number of successful deposits,
\* deposits[sender] is the sum of the sender's successful deposits, and a
\* deposit of value zero or to the zero address reverts, takes no index and
\* changes nothing.
C30_SequentialIntentIndices ==
  /\ \A n \in 1..Len(receipts.intents) :
       receipts.intents[n].intentIndex = n - 1
  /\ totalIntents(vault) = Len(receipts.intents)
  /\ \A a \in Accounts :
       vault.deposits[a] = depositedBy(receipts.intents, a)
  /\ \A s \in Depositors, i \in IntendedReceivers, x \in Values :
       LET r == deposit(Chain, s, i, x)
       IN  /\ (x = 0 \/ i = ZERO) => ~ r.ok
           /\ ~ r.ok =>
                /\ r.st.vault = vault
                /\ r.st.wallets = wallets
                /\ r.event = NULL
           /\ r.ok =>
                /\ r.event.intentIndex = Len(receipts.intents)
                /\ r.st.vault.intentCounter = vault.intentCounter + 1

\* one sender has deposited twice, 1 and then 2, and a deposit that
\* reverted has come after
C30_Witness ==
  /\ Len(receipts.intents) = 2
  /\ receipts.intents[1].sender = "alice"
  /\ receipts.intents[2].sender = "alice"
  /\ receipts.intents[1].amount = 1
  /\ receipts.intents[2].amount = 2
  /\ vault.deposits["alice"] = 3
  /\ receipts.last.fn = "deposit"
  /\ ~ receipts.last.ok

\* C31: only the owner changes the relayer and the relayer is never the zero
\* address: setRelayer from any other sender, or with the zero address,
\* reverts and changes nothing; a successful setRelayer(n) changes the
\* relayer to n and nothing else, after it every batch has for n the outcome
\* it had for the relayer before, and every batch sent by the relayer it
\* replaced reverts with OnlyRelayer.
C31_OnlyOwnerSetsRelayer ==
  /\ vault.relayer # ZERO
  /\ \A s \in Senders, n \in NewRelayers :
       LET r == setRelayer(Chain, s, n)
       IN  /\ (s # vault.owner \/ n = ZERO) =>
                /\ ~ r.ok
                /\ r.st.vault = vault
                /\ r.st.wallets = wallets
           /\ r.ok =>
                /\ r.st.vault = [ vault EXCEPT !.relayer = n ]
                /\ r.st.wallets = wallets
  /\ \A b \in Batches :
       LET before == executeBatch(Chain, vault.relayer, b[1], b[2])
       IN  \A n \in NewRelayers \ { ZERO, vault.relayer } :
              LET st == setRelayer(Chain, vault.owner, n).st
                  after == executeBatch(st, n, b[1], b[2])
                  old == executeBatch(st, vault.relayer, b[1], b[2])
              IN  /\ after.ok = before.ok
                  /\ after.error = before.error
                  /\ after.st.wallets = before.st.wallets
                  /\ ~ old.ok
                  /\ old.error = "OnlyRelayer"

\* the owner has replaced the relayer, the new relayer has just executed a
\* batch that paid bob, and setRelayer sent by the replaced relayer reverts
C31_Witness ==
  /\ vault.relayer = "alice"
  /\ receipts.last.fn = "executeBatch"
  /\ receipts.last.ok
  /\ wallets["bob"] > 0
  /\ ~ setRelayer(Chain, "relayer", "relayer").ok
  /\ setRelayer(Chain, "owner", "relayer").ok

\* C32: the size threshold is a hard ceiling: whenever no execution is in
\* flight the pool holds fewer intents than the configured threshold, also
\* after an execution that failed and after an execution during which
\* further intents were enqueued.
\* (Fails: a failed execution puts its batch back and nothing starts the
\* next execution; an enqueue during an execution finds the flag set and
\* the finished execution does not look at the pool's size again.)
C32_ThresholdIsCeiling ==
  executions = << >> => Len(relayer.intentPool) < batchSizeThreshold

\* the changes of state.status the status machine allows
StatusChanges ==
  { << "IDLE", "POOLING" >>, << "POOLING", "IDLE" >>,
    << "POOLING", "EXECUTING" >>, << "EXECUTING", "IDLE" >>,
    << "EXECUTING", "POOLING" >>, << "EXECUTING", "ERROR" >>,
    << "ERROR", "POOLING" >>, << "ERROR", "IDLE" >> }

\* C33: every change of the stored status is IDLE to POOLING, POOLING to
\* IDLE, POOLING to EXECUTING, EXECUTING to IDLE, POOLING or ERROR, or ERROR
\* to POOLING or IDLE; EXECUTING is never entered from IDLE or ERROR.
\* (Fails: syncState leaves ERROR alone and the timer callback does not
\* touch the status, so ERROR is left only when the next execution starts
\* and writes EXECUTING over it.)
C33_StatusMachine ==
  [][ relayer'.status # relayer.status
        => << relayer.status, relayer'.status >> \in StatusChanges ]_vars

\* the full window with its latest sample replaced by f
withLatest(fees, f) == [ fees EXCEPT ![windowSize] = f ]

\* the sum of a full window, in gwei
sumGwei(fees) == SumTo(LAMBDA i : fees[i] \div GWEI, windowSize)

\* C34: for every full window of non-negative fees, a window of mean zero
\* included, the training target lies in [0.01, 0.99], is at least 0.5 when
\* the latest sample is below the mean and at most 0.5 otherwise, and is
\* not higher for a latest sample that lies relatively further above its
\* window's mean.
\* (Fails: for a window of zeros the target is 0 / 0, NaN.)
C34_TargetInRange ==
  windowFull(gasAI.historicalFees) =>
    LET fees == gasAI.historicalFees
        target == targetScore(fees)
        latest == fees[windowSize] \div GWEI
    IN  /\ target >= 100
        /\ target <= 9900
        /\ windowSize * latest < sumGwei(fees) => target >= 5000
        /\ windowSize * latest >= sumGwei(fees) => target <= 5000
        /\ \A f \in AnyFees :
             LET other == withLatest(fees, f)
             IN  ( /\ windowSize * latest >= sumGwei(fees)
                   /\ (f \div GWEI) * sumGwei(fees)
                        >= latest * sumGwei(other) )
                 => targetScore(other) <= target

\* the sum of a sequence of amounts, entry by entry
RECURSIVE exactSum(_, _)
exactSum(amounts, n) ==
  IF n = 0 THEN 0 ELSE amounts[n] + exactSum(amounts, n - 1)

\* C35: the settlement call of a batch carries a receiver list and an amount
\* list of the batch's length whose i-th entries are the receiver and the
\* amount of the i-th drained intent; the batch is the pool as it was at the
\* drain, in pool order; and the total compared with the vault's balance is
\* the exact sum of the amounts.
C35_CallCarriesBatch ==
  /\ [] ( \A i \in 1..Len(executions) :
            LET e == executions[i]
            IN  /\ Len(e.receivers) = Len(e.batch)
                /\ Len(e.amounts) = Len(e.batch)
                /\ \A k \in 1..Len(e.batch) :
                     /\ e.receivers[k] = e.batch[k].receiver
                     /\ e.amounts[k] = e.batch[k].amount
                /\ e.totalValue = exactSum(e.amounts, Len(e.amounts))
                /\ e.call = IF e.pc = "wait"
                              THEN << e.receivers, e.amounts >>
                              ELSE << >> )
  /\ [][ /\ StartStep =>
              executions'[Len(executions')].batch
                = relayer.intentPool
                    \o SubSeq(arrived', Len(arrived) + 1, Len(arrived'))
         /\ \A i \in 1..Len(executions) :
              ( /\ executions[i].pc = "vaultBalance"
                /\ executions' # executions
                /\ arrived' = arrived
                /\ gasAI' = gasAI )
              => \A bal \in VaultBalances :
                    VaultBalanceReturns(i, bal) =>
                      ( FailStep(i) <=>
                          bal < exactSum(executions[i].amounts,
                                         Len(executions[i].amounts)) )
       ]_vars

\* the settlement call for the two intents a failed execution had put back
\* is awaiting its receipt; the total compared with the balance was 3
C35_Witness ==
  /\ nFailures > 0
  /\ executions # << >>
  /\ LET e == executions[Len(executions)]
     IN  /\ e.pc = "wait"
         /\ e.call = << << "r1", "r2" >>, << 1, 2 >> >>
         /\ e.totalValue = 3
         /\ e.batch = lastRestored

\* C36: the stored status is EXECUTING exactly while an execution is in
\* flight: an unfinished execution exists if and only if isExecuting is
\* true, and if and only if the stored status is EXECUTING, also when the
\* 10-second timers fire.
\* (Fails: the timer left by an earlier execution clears isExecuting while a
\* later execution is awaiting the ledger.)
C36_ExecutingIffInFlight ==
  /\ (executions # << >>) <=> relayer.isExecuting
  /\ (executions # << >>) <=> (relayer.status = "EXECUTING")

\* the intents that are pooled or in the batch of an unfinished execution
Held == Range(relayer.intentPool)
          \cup UNION { Range(executions[i].batch) : i \in 1..Len(executions) }

\* C37: with all intents entering through POST /api/simulate-intent, no two
\* intents that are pooled or in an in-flight batch at the same time carry
\* the same intentIndex.
\* (Fails: the index is totalIntentsProcessed plus the pool length, and the
\* intents of a batch in flight are counted by neither.)
C37_DemoIndicesUnique ==
  \A a \in Held, b \in Held : a.intentIndex = b.intentIndex => a = b

\* C38: the pool is always in arrival order: of two intents in the pool the
\* one enqueued first comes first.
\* (Fails: when two executions overlap, which the stale timer of C1 allows,
\* and both fail, the later failure puts its newer batch in front of the
\* older batch the earlier failure had put back.)
C38_PoolInArrivalOrder ==
  \A j \in 1..Len(relayer.intentPool), k \in 1..Len(relayer.intentPool) :
     j < k <=> relayer.intentPool[j].id < relayer.intentPool[k].id

\* C39: whenever the stored status is ERROR the pool is not empty: the
\* status becomes ERROR only in the step that puts a failed, non-empty batch
\* back at the head of the pool, and a step that empties the pool leaves
\* the status EXECUTING.
C39_ErrorImpliesPooled ==
  /\ [] ( relayer.status = "ERROR" => relayer.intentPool # << >> )
  /\ [][ /\ ( relayer.status # "ERROR" /\ relayer'.status = "ERROR" ) =>
              \E i \in 1..Len(executions) :
                 /\ FailStep(i)
                 /\ executions[i].batch # << >>
                 /\ relayer'.intentPool
                      = executions[i].batch \o relayer.intentPool
         /\ ( relayer.intentPool # << >> /\ relayer'.intentPool = << >> ) =>
              relayer'.status = "EXECUTING" ]_vars

\* an execution has failed while intents that arrived during it were
\* pooled, and the status has been read since: status ERROR, the restored
\* batch in front of the newer intent
C39_Witness ==
  /\ relayer.status = "ERROR"
  /\ executions = << >>
  /\ Len(lastRestored) = 2
  /\ Len(relayer.intentPool) = 3
  /\ IsPrefix(lastRestored, relayer.intentPool)
  /\ relayer.pooledIntents = relayer.intentPool
  /\ ~ CooldownPending

\* C40: the vault's balance is the value received through deposits and
\* plain transfers minus the value paid out by successful executeBatch and
\* emergencyWithdraw calls: a successful deposit or plain transfer of x
\* raises it by x, a successful executeBatch lowers it by the sum of the
\* amounts, a successful emergencyWithdraw lowers it by the amount, a call
\* that reverts leaves it as it was; it is never negative; and executeBatch
\* and emergencyWithdraw change neither deposits[] nor the intent counter.
\* (Fails for the reason of C29: a batch entry or a withdrawal whose
\* receiver is the vault itself succeeds and pays nothing out.)
C40_BalanceAccounting ==
  /\ wallets[VAULT] >= 0
  /\ \A s \in Depositors, x \in Values :
       wallets[s] >= x =>
         /\ \A i \in IntendedReceivers :
              LET r == deposit(Chain, s, i, x)
              IN  r.st.wallets[VAULT]
                    = wallets[VAULT] + (IF r.ok THEN x ELSE 0)
         /\ LET r == plainTransfer(Chain, s, x)
            IN  /\ r.ok
                /\ r.st.wallets[VAULT] = wallets[VAULT] + x
                /\ r.st.vault = vault
  /\ \A s \in Senders, b \in FundsBatches :
       LET r == executeBatch(Chain, s, b[1], b[2])
       IN  /\ r.st.wallets[VAULT]
                = wallets[VAULT] - (IF r.ok THEN totalRequired(b[2]) ELSE 0)
           /\ r.st.vault.deposits = vault.deposits
           /\ r.st.vault.intentCounter = vault.intentCounter
  /\ \A s \in Senders, t \in WithdrawTargets, x \in WithdrawAmounts :
       LET r == emergencyWithdraw(Chain, s, t, x)
       IN  /\ r.st.wallets[VAULT]
                = wallets[VAULT] - (IF r.ok THEN x ELSE 0)
           /\ r.st.vault.deposits = vault.deposits
           /\ r.st.vault.intentCounter = vault.intentCounter

====
